---- MODULE Spec2Model ----
(***************************************************************************)
(* Mend: the step execution engine (src/src/run.rs) and the driver         *)
(* (src/src/main.rs), with the Repo, Executor and Notify collaborators     *)
(* (src/src/repo.rs, src/src/progress.rs) as nondeterministic outcomes.    *)
(*                                                                         *)
(* Every call made on a collaborator is appended to `log`, so that the     *)
(* order of calls is a property of the state.                              *)
(***************************************************************************)
EXTENDS Integers, Sequences, FiniteSets, TLC

\* ---------------------------------------------------------------- bounds
MaxSteps == 2
MaxScripts == 2
MaxPlanSteps == 2
MaxHooks == 2
MaxIncludes == 2

\* ---------------------------------------------------------------- values
\* Option<T>: None is <<>>, Some(v) is <<v>>.
None == <<>>
Some(v) == <<v>>
IsSome(o) == Len(o) = 1

\* EStatus (run.rs 37-43)
EStatus == {"Pending", "Running", "Done", "Failed"}

\* A StepRequest (run.rs 13-18).  Step lines, scripts and commit messages are
\* opaque texts here: the step line of the n-th step is n, its k-th script is
\* <<n, k>> and its commit message is <<n, 0>>, so that texts of different
\* steps are never confused.
StepRequest(n, len) ==
    [run |-> n, run_resolved |-> [k \in 1..len |-> <<n, k>>], commit_msg |-> <<n, 0>>]

\* the request lists with the given script counts, one count per step
RequestsOf(lens) == [n \in 1..Len(lens) |-> StepRequest(n, lens[n])]

RECURSIVE SeqsUpTo(_, _)
SeqsUpTo(S, n) ==
    IF n = 0 THEN {<<>>}
    ELSE LET shorter == SeqsUpTo(S, n - 1)
         IN  shorter \cup {Append(s, x) : s \in {t \in shorter : Len(t) = n - 1}, x \in S}

\* The plan's env bindings (main.rs 36), in key order, as the driver iterates
\* them.  A value is a literal (lit) or a reference to a variable (ref).
EnvPlans ==
    { <<>>,
      << [key |-> "A", lit |-> "a", ref |-> None] >>,
      << [key |-> "A", lit |-> "a", ref |-> None], [key |-> "B", lit |-> "", ref |-> Some("A")] >>,
      << [key |-> "A", lit |-> "", ref |-> Some("UNDEFINED")] >> }

VARIABLES
    entry,          \* "drive" (main.rs drive), "run_all_steps" (run.rs run_all_steps),
                    \* "plan" (the planner alone) or "run" (main.rs run)
    cli,            \* Cli { file, dry_run } (main.rs 20-26)
    fs,             \* the files of the plan: path -> content
    main_mend,      \* load_mend's main_mend (config.rs 14), Option
    include_i,      \* number of includes the loop of load_mend has taken (config.rs 25)
    mend_from,      \* Mend.from : Option<From>
    mend_env,       \* Mend.env
    mend_recipes,   \* Mend.recipes : name -> Recipe
    mend_hooks,     \* Mend.hooks : key -> sequence of Hook
    mend_steps,     \* Mend.steps : sequence of step lines
    step_requests,  \* the planned requests (main.rs 89) / the argument (run.rs 151)
    pc,             \* position in the code
    env_i,          \* position of the loop over mend.env (main.rs 107)
    penv,           \* the process environment, name -> value
    step_i,         \* run_all_steps' step_i
    step_request,   \* the request taken from the list by the for loop, Option
    step_response,  \* the StepResponse of the step in hand
    script_i,       \* number of scripts of step_request the for loop has taken
    head,           \* number of revisions committed to the worktree
    responses,      \* the response each finished run_step call left behind
    result,         \* run.rs run_all_steps' return value / main.rs' printed failure
    exit_code,      \* the exit status of the process (main.rs 71-81), Option
    log             \* the calls made on Repo, Executor, Notify and the environment

vars == <<entry, cli, fs, main_mend, include_i,
          mend_from, mend_env, mend_recipes, mend_hooks, mend_steps,
          step_requests, pc, env_i, penv, step_i, step_request, step_response,
          script_i, head, responses, result, exit_code, log>>

\* the command line, the files and load_mend's position
load_vars == <<cli, fs, main_mend, include_i>>

\* the plan and what it was loaded from, which no step of a run changes
mend_vars == <<load_vars, mend_from, mend_env, mend_recipes, mend_hooks, mend_steps>>

\* StepResponse { sha: None, status: Pending, output: None }  (run.rs 155, main.rs 121)
NewStepResponse == [sha |-> None, status |-> "Pending", output |-> None]

\* an output that keeps the last text only
push_output_str_replace(resp, text) == [resp EXCEPT !.output = Some(<<text>>)]

\* StepResponse::push_output_str (run.rs 29-34): the first text becomes the
\* output, a later one is joined to it with a newline.  The output is kept as
\* the sequence of the joined texts.
push_output_str(resp, text) ==
    IF resp.output = None
    THEN [resp EXCEPT !.output = Some(<<text>>)]
    ELSE [resp EXCEPT !.output = Some(Append(resp.output[1], text))]

\* a notify that always advances
NotifyEv_alwaysInc(i, req, resp, inc) ==
    [ev |-> "notify", step |-> i, run |-> req.run, status |-> resp.status,
     sha |-> resp.sha, inc |-> TRUE]

\* Notify::notify (progress.rs 12), as called with the step's fields
NotifyEv(i, req, resp, inc) ==
    [ev |-> "notify", step |-> i, run |-> req.run, status |-> resp.status,
     sha |-> resp.sha, inc |-> inc]

\* ---------------------------------------------------------------- texts
\* A string is a sequence of atoms: a word (a run of non-whitespace
\* characters), a whitespace character, or a variable reference `$name` /
\* `${name}`.  Words of a step line are separated by whitespace.
W(str) == [k |-> "w", s |-> str]
SP == [k |-> "sp", s |-> " "]
NL == [k |-> "sp", s |-> "\n"]
Ref(name) == [k |-> "ref", s |-> name]
BRef(name) == [k |-> "bref", s |-> name]

IsRef(a) == a.k \in {"ref", "bref"}

\* str::trim as used at run.rs 106
RECURSIVE trim_start(_)
trim_start(t) == IF t = <<>> \/ t[1].k # "sp" THEN t ELSE trim_start(Tail(t))

RECURSIVE trim_end(_)
trim_end(t) ==
    IF t = <<>> \/ t[Len(t)].k # "sp" THEN t ELSE trim_end(SubSeq(t, 1, Len(t) - 1))

trim(t) == trim_end(trim_start(t))

\* str::split_whitespace as used at run.rs 107, 131: the tokens of the text
IsToken(a) == a.k # "sp"
split_whitespace(t) == SelectSeq(t, IsToken)

\* str::parse::<i16> as used at run.rs 135, on the names the model uses;
\* 40000 does not fit an i16
Digits == ("0" :> 0) @@ ("1" :> 1) @@ ("2" :> 2) @@ ("3" :> 3) @@ ("4" :> 4)
parse_i16(name) == IF name \in DOMAIN Digits THEN Some(Digits[name]) ELSE None

\* std::env::var(s).ok() (run.rs 143): the value as a text of one word
env_var(environ, name) ==
    IF name \in DOMAIN environ THEN Some(<<W(environ[name])>>) ELSE None

RECURSIVE Flatten(_)
Flatten(ts) == IF ts = <<>> THEN <<>> ELSE ts[1] \o Flatten(Tail(ts))

\* ---------------------------------------------------------------- planner
\* a selection of recipes whose filter is missing
matching_recipes_all(recipes, recipe_name) == DOMAIN recipes

\* run.rs 108-109: the recipes whose name equals the step's first token
matching_recipes(recipes, recipe_name) ==
    {n \in DOMAIN recipes : <<W(n)>> = recipe_name}

\* run.rs 107: the first whitespace token of the trimmed line, or the empty
\* string
instruction_recipe_name(instruction_trimmed) ==
    LET tokens == split_whitespace(instruction_trimmed)
    IN  IF tokens = <<>> THEN <<>> ELSE <<tokens[1]>>

\* the iteration of a BTreeMap (run.rs 50, 121); recipe names are unique and
\* the filter is an equality, so at most one name is iterated
RECURSIVE InOrder(_)
InOrder(names) ==
    IF names = {} THEN <<>>
    ELSE LET n == CHOOSE x \in names : TRUE IN <<n>> \o InOrder(names \ {n})

\* run.rs 51: format!("function {}() {{\n{}\n}}\n", recipe_name, recipe.run)
recipe_fn(recipe_name, recipe) ==
    <<W("function"), SP, W(recipe_name), W("()"), SP, W("{"), NL>> \o recipe.run
        \o <<NL, W("}"), NL>>

\* a selection of hooks that does not look at when_not_tag
RECURSIVE push_hooks_notTagIgnored(_, _, _)
push_hooks_notTagIgnored(scripts, hooks, tags) ==
    IF hooks = <<>> THEN scripts
    ELSE LET hook == hooks[1]
             contains(tag) == \E j \in 1..Len(tags) : tags[j] = tag
             selected ==
                 IF hook.run = None THEN FALSE
                 ELSE IF hook.when_tag # None THEN contains(hook.when_tag[1])
                 ELSE TRUE
         IN  push_hooks_notTagIgnored(
                 IF selected THEN Append(scripts, hook.run[1]) ELSE scripts,
                 Tail(hooks), tags)

\* run.rs 78-96: the bodies of the hooks under `key` that the tags select,
\* appended to scripts in declared order
RECURSIVE push_hooks(_, _, _)
push_hooks(scripts, hooks, tags) ==
    IF hooks = <<>> THEN scripts
    ELSE LET hook == hooks[1]
             contains(tag) == \E j \in 1..Len(tags) : tags[j] = tag
             selected ==
                 IF hook.run = None THEN FALSE
                 ELSE IF hook.when_tag # None THEN contains(hook.when_tag[1])
                 ELSE IF hook.when_not_tag # None THEN ~contains(hook.when_not_tag[1])
                 ELSE TRUE
         IN  push_hooks(IF selected THEN Append(scripts, hook.run[1]) ELSE scripts,
                        Tail(hooks), tags)

\* a selection that tests when_not_tag before when_tag
add_matching_hooks_notTagFirst(scripts, hooks, key, tags) ==
    IF key \in DOMAIN hooks
    THEN LET contains(tag) == \E j \in 1..Len(tags) : tags[j] = tag
             selected(hook) ==
                 IF hook.run = None THEN FALSE
                 ELSE IF hook.when_not_tag # None THEN ~contains(hook.when_not_tag[1])
                 ELSE IF hook.when_tag # None THEN contains(hook.when_tag[1])
                 ELSE TRUE
             chosen == SelectSeq(hooks[key], selected)
         IN  scripts \o [j \in 1..Len(chosen) |-> chosen[j].run[1]]
    ELSE scripts

add_matching_hooks(scripts, hooks, key, tags) ==
    IF key \in DOMAIN hooks THEN push_hooks(scripts, hooks[key], tags) ELSE scripts

\* a script list that starts with the main script
resolve_step_scripts_mainFirst(instruction, recipes, hooks, matching) ==
    LET names == InOrder(matching)
        prelude == Flatten([j \in 1..Len(names) |-> recipe_fn(names[j], recipes[names[j]])])
        recipe_tags == Flatten([j \in 1..Len(names) |-> recipes[names[j]].tags])
        resolved_instruction == prelude \o instruction \o <<NL>>
        before == add_matching_hooks(<<resolved_instruction>>, hooks, "before_step",
                                     recipe_tags)
    IN  add_matching_hooks(before, hooks, "after_step", recipe_tags)

\* run.rs 45-64
resolve_step_scripts(instruction, recipes, hooks, matching) ==
    LET names == InOrder(matching)
        prelude == Flatten([j \in 1..Len(names) |-> recipe_fn(names[j], recipes[names[j]])])
        recipe_tags == Flatten([j \in 1..Len(names) |-> recipes[names[j]].tags])
        resolved_instruction == prelude \o instruction \o <<NL>>
        before == add_matching_hooks(<<>>, hooks, "before_step", recipe_tags)
    IN  add_matching_hooks(Append(before, resolved_instruction), hooks, "after_step",
                           recipe_tags)

\* a context that counts the arguments from the recipe name
context_fromZero(name, args, environ) ==
    LET arg_num == parse_i16(name)
    IN  IF arg_num # None /\ arg_num[1] >= 1 /\ arg_num[1] < Len(args)
        THEN Some(<<args[arg_num[1]]>>)
        ELSE env_var(environ, name)

\* run.rs 132-145: the context closure of render_commit_message
context(name, args, environ) ==
    LET arg_num == parse_i16(name)
    IN  IF arg_num # None /\ arg_num[1] >= 1 /\ arg_num[1] < Len(args)
        THEN Some(<<args[arg_num[1] + 1]>>)
        ELSE env_var(environ, name)

\* shellexpand::env_with_context_no_errors (run.rs 146): a reference the
\* context resolves is replaced by its value, any other text is kept
env_with_context_no_errors(template, args, environ) ==
    Flatten([j \in 1..Len(template) |->
        IF IsRef(template[j]) /\ context(template[j].s, args, environ) # None
        THEN context(template[j].s, args, environ)[1]
        ELSE <<template[j]>>])

\* a rendering that leaves the line of a step without recipe as it is
render_commit_message_rawLine(instruction, recipes, matching, environ) ==
    LET names == InOrder(matching)
        args == split_whitespace(instruction)
    IN  IF names = <<>> THEN instruction
        ELSE IF recipes[names[1]].commit_template = None
        THEN env_with_context_no_errors(instruction, args, environ)
        ELSE env_with_context_no_errors(recipes[names[1]].commit_template[1], args, environ)

\* run.rs 120-149
render_commit_message(instruction, recipes, matching, environ) ==
    LET names == InOrder(matching)
        commit_template ==
            IF names = <<>> THEN instruction
            ELSE IF recipes[names[1]].commit_template = None THEN instruction
            ELSE recipes[names[1]].commit_template[1]
        args == split_whitespace(instruction)
    IN  env_with_context_no_errors(commit_template, args, environ)

\* a request that keeps the trimmed line
plan_step_runTrimmed(step_text, recipes, hooks, environ) ==
    LET instruction == step_text
        instruction_trimmed == trim(instruction)
        recipe_name == instruction_recipe_name(instruction_trimmed)
        matching == matching_recipes(recipes, recipe_name)
    IN  [run |-> instruction_trimmed,
         run_resolved |-> resolve_step_scripts(instruction, recipes, hooks, matching),
         commit_msg |-> render_commit_message(instruction_trimmed, recipes, matching, environ)]

\* run.rs 103-116: the request planned for one step line
plan_step(step_text, recipes, hooks, environ) ==
    LET instruction == step_text
        instruction_trimmed == trim(instruction)
        recipe_name == instruction_recipe_name(instruction_trimmed)
        matching == matching_recipes(recipes, recipe_name)
    IN  [run |-> step_text,
         run_resolved |-> resolve_step_scripts(instruction, recipes, hooks, matching),
         commit_msg |-> render_commit_message(instruction_trimmed, recipes, matching, environ)]

\* a planner that expands the scripts against the environment
create_run_status_from_mend_expandScripts(steps, recipes, hooks, environ) ==
    [n \in 1..Len(steps) |->
        LET request == plan_step(steps[n], recipes, hooks, environ)
        IN  [request EXCEPT !.run_resolved =
                [k \in 1..Len(@) |-> env_with_context_no_errors(@[k], <<>>, environ)]]]

\* run.rs 98-118
create_run_status_from_mend(steps, recipes, hooks, environ) ==
    [n \in 1..Len(steps) |-> plan_step(steps[n], recipes, hooks, environ)]

\* ---------------------------------------------------------------- plans
\* step lines: "cmd arg1 arg2", " cmd  arg1 ", "echo $2 x $A", "arg1 cmd", " "
LineCmd == <<W("cmd"), SP, W("arg1"), SP, W("arg2")>>
LinePadded == <<SP, W("cmd"), SP, SP, W("arg1"), SP>>
LineRefs == <<W("echo"), SP, Ref("2"), SP, W("x"), SP, Ref("A")>>
LineArgFirst == <<W("arg1"), SP, W("cmd")>>
LineBlank == <<SP>>
StepLines == {LineCmd, LinePadded, LineRefs, LineArgFirst, LineBlank}

\* recipes (main.rs 54-62, after load_mend's normalisation of `tag`)
Recipe(run, commit_template, tags) ==
    [run |-> run, commit_template |-> commit_template, tags |-> tags]

\* "resolved $1 $2" without template; "rename-cli $1" with the templates
\* "Rename $1 to ${2}" and "$0 $3 $A $1"
CmdRecipes ==
    { Recipe(<<W("resolved"), SP, Ref("1"), SP, Ref("2")>>, None, <<>>),
      Recipe(<<W("rename-cli"), SP, Ref("1")>>,
             Some(<<W("Rename"), SP, Ref("1"), SP, W("to"), SP, BRef("2")>>), <<"t">>),
      Recipe(<<W("rename-cli"), SP, Ref("1")>>,
             Some(<<Ref("0"), SP, Ref("3"), SP, Ref("A"), SP, Ref("1")>>), <<"t", "u">>) }

\* a recipe named like an argument of the cmd lines
ArgRecipes == { Recipe(<<W("should-not-appear")>>, Some(<<W("bad")>>), <<"u">>) }

\* the map with the optional recipes `cmd` and `arg1`
RecipeMap(cmd, arg1) ==
    [n \in (IF cmd = None THEN {} ELSE {"cmd"}) \cup (IF arg1 = None THEN {} ELSE {"arg1"})
        |-> IF n = "cmd" THEN cmd[1] ELSE arg1[1]]

Options(S) == {None} \cup {Some(x) : x \in S}

RecipeMaps == {RecipeMap(c, a) : c \in Options(CmdRecipes), a \in Options(ArgRecipes)}

\* hooks (main.rs 64-69)
Hook(run, when_tag, when_not_tag) ==
    [run |-> run, when_tag |-> when_tag, when_not_tag |-> when_not_tag]

BeforeHooks ==
    { Hook(Some(<<W("echoA")>>), Some("t"), None),
      Hook(Some(<<W("echoB")>>), None, Some("t")),
      Hook(Some(<<W("echoC")>>), Some("u"), Some("t")),
      Hook(Some(<<W("echoD")>>), None, None),
      Hook(None, None, None) }

AfterHookLists ==
    { <<>>,
      << Hook(Some(<<W("after")>>), None, None) >>,
      << Hook(Some(<<W("afterNotU")>>), None, Some("u")),
         Hook(Some(<<W("after")>>), None, None) >> }

\* the map with the optional keys before_step and after_step
HookMap(before, after) ==
    [key \in (IF before = None THEN {} ELSE {"before_step"})
             \cup (IF after = None THEN {} ELSE {"after_step"})
        |-> IF key = "before_step" THEN before[1] ELSE after[1]]

\* the plans of a driver run: steps "cmd arg1 arg2" and "echo $2 x $A", a
\* recipe cmd with the template "$A $1", a tagged before hook and an after hook
DriveLines == {LineCmd, LineRefs}
DriveRecipeMaps ==
    { RecipeMap(None, None),
      RecipeMap(Some(Recipe(<<W("rename-cli"), SP, Ref("1")>>,
                            Some(<<Ref("A"), SP, Ref("1")>>), <<"t">>)), None) }
DriveHookMaps ==
    { HookMap(None, None),
      HookMap(Some(<< Hook(Some(<<W("echoA")>>), Some("t"), None) >>),
              Some(<< Hook(Some(<<W("after")>>), None, None) >>)) }

Init ==
    /\ entry \in {"drive", "run_all_steps"}
    /\ cli = [file |-> None, dry_run |-> FALSE]
    /\ fs = <<>>
    /\ main_mend = None
    /\ include_i = 0
    /\ IF entry = "drive"
       THEN /\ mend_from \in {None, Some("from")}
            /\ mend_env \in EnvPlans
            /\ mend_recipes \in DriveRecipeMaps
            /\ mend_hooks \in DriveHookMaps
            /\ mend_steps \in SeqsUpTo(DriveLines, MaxSteps)
            /\ step_requests = <<>>
       ELSE /\ mend_from = None
            /\ mend_env = <<>>
            /\ mend_recipes = RecipeMap(None, None)
            /\ mend_hooks = HookMap(None, None)
            /\ mend_steps = <<>>
            /\ \E lens \in SeqsUpTo(0..MaxScripts, MaxSteps) :
                  step_requests = RequestsOf(lens)
    /\ pc = IF entry = "drive" THEN "drive" ELSE "for_step"
    /\ env_i = 0
    /\ penv = [n \in {"HOME"} |-> "/home"]
    /\ step_i = 0
    /\ step_request = None
    /\ step_response = NewStepResponse
    /\ script_i = 0
    /\ head = 0
    /\ responses = <<>>
    /\ result = None
    /\ exit_code = None
    /\ log = <<>>

\* ---------------------------------------------------------------- driver
\* create_console_notifier (progress.rs 93-121): one row per request, each
\* announced by a Pending notify that does not advance.
create_console_notifier(reqs) ==
    [n \in 1..Len(reqs) |->
        [ev |-> "notify", step |-> n - 1, run |-> reqs[n].run, status |-> "Pending",
         sha |-> None, inc |-> FALSE]]

\* drive (main.rs 84-94): `from` is required, the steps are planned against
\* the process environment as it is, and the notifier is built from them.
drive_plan ==
    /\ pc = "drive"
    /\ IF mend_from = None
       THEN /\ pc' = "panicked"
            /\ UNCHANGED <<step_requests, log>>
       ELSE /\ pc' = "ensure_worktree"
            /\ step_requests' =
                  create_run_status_from_mend(mend_steps, mend_recipes, mend_hooks, penv)
            /\ log' = log \o create_console_notifier(step_requests')
    /\ UNCHANGED <<entry, mend_vars, exit_code, env_i, penv, step_i,
                   step_request, step_response, script_i, head, responses, result>>

\* drive (main.rs 96-106) calling ensure_worktree (repo.rs 13-46): on an error
\* the body of the `if let Ok` is skipped and drive returns.
drive_ensure_worktree ==
    /\ pc = "ensure_worktree"
    /\ \E ok \in BOOLEAN :
          /\ log' = Append(log, [ev |-> "ensure_worktree", ok |-> ok])
          /\ pc' = IF ~ok THEN "done"
                   ELSE IF Len(mend_env) = 0 THEN "for_step" ELSE "set_env"
    /\ UNCHANGED <<entry, mend_vars, exit_code, step_requests, env_i, penv, step_i,
                   step_request, step_response, script_i, head, responses, result>>

\* shellexpand::env(value) as used at main.rs 108: a literal expands to itself,
\* a reference to the variable's value, and a reference to an undefined
\* variable is an error.
shellexpand_env(e, environ) ==
    IF e.ref = None THEN Some(e.lit)
    ELSE IF e.ref[1] \in DOMAIN environ THEN Some(environ[e.ref[1]])
    ELSE None

\* env::set_var (main.rs 109)
set_var(environ, key, value) ==
    [n \in DOMAIN environ \cup {key} |-> IF n = key THEN value ELSE environ[n]]

\* drive (main.rs 107-110): one iteration of the loop over mend.env; unwrap
\* panics on an expansion error.
drive_set_env ==
    /\ pc = "set_env"
    /\ env_i < Len(mend_env)
    /\ LET e == mend_env[env_i + 1]
           expanded == shellexpand_env(e, penv)
       IN  IF expanded = None
           THEN /\ pc' = "panicked"
                /\ UNCHANGED <<penv, env_i, log>>
           ELSE /\ penv' = set_var(penv, e.key, expanded[1])
                /\ log' = Append(log, [ev |-> "set_var", key |-> e.key, value |-> expanded[1]])
                /\ env_i' = env_i + 1
                /\ pc' = IF env_i + 1 = Len(mend_env) THEN "for_step" ELSE "set_env"
    /\ UNCHANGED <<entry, mend_vars, exit_code, step_requests, step_i,
                   step_request, step_response, script_i, head, responses, result>>

\* drive (main.rs 114)
drive_notify_done ==
    /\ pc = "notify_done"
    /\ log' = Append(log, [ev |-> "notify_done"])
    /\ pc' = "done"
    /\ UNCHANGED <<entry, mend_vars, exit_code, step_requests, env_i, penv, step_i,
                   step_request, step_response, script_i, head, responses, result>>

\* main and run (main.rs 71-81, 169-171): drive returns nothing, so run returns
\* Ok(()) and the process exits with status 0; a panic ends it with status 101.
main_exit ==
    /\ entry = "drive"
    /\ pc \in {"done", "panicked"}
    /\ exit_code = None
    /\ exit_code' = Some(IF pc = "done" THEN 0 ELSE 101)
    /\ UNCHANGED <<entry, mend_vars, step_requests, pc, env_i, penv, step_i, step_request,
                   step_response, script_i, head, responses, result, log>>

\* ---------------------------------------------------------------- run_all_steps
\* a loop that never sees a failed step
StepFailed_never(resp) == FALSE

\* the test `step_response.status == Failed` (run.rs 165, main.rs 131)
StepFailed(resp) == resp.status = "Failed"

\* run.rs 154-163: the for loop takes the next request, makes a Pending
\* response and calls run_step; run.rs 169: Ok(()) when the list is exhausted.
run_all_steps_for ==
    /\ entry = "run_all_steps"
    /\ pc = "for_step"
    /\ IF step_i < Len(step_requests)
       THEN /\ step_request' = Some(step_requests[step_i + 1])
            /\ step_response' = NewStepResponse
            /\ pc' = "run_step"
            /\ result' = result
       ELSE /\ result' = Some([ok |-> TRUE])
            /\ pc' = "done"
            /\ UNCHANGED <<step_request, step_response>>
    /\ UNCHANGED <<entry, mend_vars, exit_code, step_requests, env_i, penv, step_i,
                   script_i, head, responses, log>>

\* run.rs 164-167: after run_step, count the step and return the failing pair.
run_all_steps_check ==
    /\ entry = "run_all_steps"
    /\ pc = "step_returned"
    /\ step_i' = step_i + 1
    /\ IF StepFailed(step_response)
       THEN /\ result' = Some([ok |-> FALSE, request |-> step_request[1],
                               response |-> step_response])
            /\ pc' = "done"
       ELSE /\ result' = result
            /\ pc' = "for_step"
    /\ UNCHANGED <<entry, mend_vars, exit_code, step_requests, env_i, penv,
                   step_request, step_response, script_i, head, responses, log>>

\* main.rs 120-129: the driver's own loop; when the list is exhausted control
\* returns to drive.
main_run_all_steps_for ==
    /\ entry = "drive"
    /\ pc = "for_step"
    /\ IF step_i < Len(step_requests)
       THEN /\ step_request' = Some(step_requests[step_i + 1])
            /\ step_response' = NewStepResponse
            /\ pc' = "run_step"
       ELSE /\ pc' = "notify_done"
            /\ UNCHANGED <<step_request, step_response>>
    /\ UNCHANGED <<entry, mend_vars, exit_code, step_requests, env_i, penv, step_i,
                   script_i, head, responses, result, log>>

\* a failed step that makes the driver return at once
main_run_all_steps_check_return ==
    /\ entry = "drive"
    /\ pc = "step_returned"
    /\ step_i' = step_i + 1
    /\ IF StepFailed(step_response)
       THEN /\ result' = Some([ok |-> FALSE, request |-> step_request[1],
                               response |-> step_response])
            /\ pc' = "done"
       ELSE /\ result' = result
            /\ pc' = "for_step"
    /\ UNCHANGED <<entry, mend_vars, exit_code, step_requests, env_i, penv,
                   step_request, step_response, script_i, head, responses, log>>

\* main.rs 130-135: after run_step, count the step; a failed step is printed
\* and the loop is left.
main_run_all_steps_check ==
    /\ entry = "drive"
    /\ pc = "step_returned"
    /\ step_i' = step_i + 1
    /\ IF StepFailed(step_response)
       THEN /\ result' = Some([ok |-> FALSE, request |-> step_request[1],
                               response |-> step_response])
            /\ pc' = "notify_done"
       ELSE /\ result' = result
            /\ pc' = "for_step"
    /\ UNCHANGED <<entry, mend_vars, exit_code, step_requests, env_i, penv,
                   step_request, step_response, script_i, head, responses, log>>

\* ---------------------------------------------------------------- run_step
\* Outcomes of Executor::run_script (run.rs 67): Ok with exit status zero,
\* Ok with a non-zero exit status, or Err.
ScriptOutcomes == {"success", "nonzero", "err"}

\* a non-zero exit status that is not recorded as a failure
ScriptSetsFailed_errOnly(out) == out = "err"

\* run.rs 198, 211: the outcomes after which status is set to Failed
ScriptSetsFailed(out) == out \in {"nonzero", "err"}

\* a loop over the scripts without break
ScriptBreaks_never(out) == FALSE

\* run.rs 206: the outcomes after which the loop over the scripts is left.
\* The Err arm (run.rs 209-219) has no break.
ScriptBreaks(out) == out = "nonzero"

\* a commit that is attempted whatever the status
CommitBranch_always(resp) == TRUE

\* run.rs 223: the commit branch is taken unless status is Failed
CommitBranch(resp) == resp.status # "Failed"

\* run.rs 180: status := Running, then the loop over run_resolved starts.
run_step_enter ==
    /\ pc = "run_step"
    /\ step_response' = [step_response EXCEPT !.status = "Running"]
    /\ script_i' = 0
    /\ pc' = IF Len(step_request[1].run_resolved) = 0 THEN "after_scripts" ELSE "for_script"
    /\ UNCHANGED <<entry, mend_vars, exit_code, step_requests, env_i, penv, step_i,
                   step_request, head, responses, result, log>>

\* run.rs 181-221: one iteration of the loop over the scripts.
run_step_script ==
    /\ pc = "for_script"
    /\ script_i < Len(step_request[1].run_resolved)
    /\ \E out \in ScriptOutcomes :
          LET req == step_request[1]
              script == req.run_resolved[script_i + 1]
              r0 == push_output_str(step_response, [kind |-> "Running", of |-> script])
              r1 == IF out = "err"
                    THEN push_output_str(r0, [kind |-> "Failed to run", of |-> script])
                    ELSE push_output_str(
                           push_output_str(r0, [kind |-> "stdout", of |-> script]),
                           [kind |-> "stderr", of |-> script])
              r2 == IF ScriptSetsFailed(out) THEN [r1 EXCEPT !.status = "Failed"] ELSE r1
              calls == << NotifyEv(step_i, req, step_response, TRUE),
                          [ev |-> "run_script", step |-> step_i, cwd |-> "dir",
                           script |-> script, out |-> out] >>
              last == script_i + 1 = Len(req.run_resolved)
          IN  /\ step_response' = r2
              /\ log' = log \o calls \o
                        (IF ScriptSetsFailed(out)
                         THEN << NotifyEv(step_i, req, r2, FALSE) >> ELSE << >>)
              /\ script_i' = script_i + 1
              /\ pc' = IF ScriptBreaks(out) \/ last THEN "after_scripts" ELSE "for_script"
    /\ UNCHANGED <<entry, mend_vars, exit_code, step_requests, env_i, penv, step_i,
                   step_request, head, responses, result>>

\* Outcomes of Repo::commit_all and Repo::reset_hard (repo.rs 7-8)
RepoOutcomes == {"ok", "err"}

\* Outcomes of Repo::current_short_sha (repo.rs 9, 87-97): GitRepo also
\* panics when git cannot be spawned (repo.rs 92).
ShaOutcomes == {"ok", "err", "panic"}

\* a revision that is looked up and recorded in both arms of the match
commit_result_shaAlways(resp, msg, c, s, rev) ==
    IF c = "ok"
    THEN IF s = "ok" THEN [resp EXCEPT !.sha = Some(rev)] ELSE resp
    ELSE [push_output_str(resp, [kind |-> "commit error", of |-> msg])
          EXCEPT !.status = "Failed", !.sha = Some(rev)]

\* run.rs 226-236: the response after the match on commit_all's result.  On
\* Ok the revision is recorded when current_short_sha returns Ok (rev); on
\* Err the error is appended and status overridden to Failed.
commit_result(resp, msg, c, s, rev) ==
    IF c = "ok"
    THEN IF s = "ok" THEN [resp EXCEPT !.sha = Some(rev)] ELSE resp
    ELSE [push_output_str(resp, [kind |-> "commit error", of |-> msg])
          EXCEPT !.status = "Failed"]

\* a commit branch that also notifies the Done set before the commit attempt
run_step_commit_notifyBefore ==
    /\ pc = "after_scripts"
    /\ CommitBranch(step_response)
    /\ \E c \in RepoOutcomes, s \in ShaOutcomes :
          LET req == step_request[1]
              r0 == push_output_str([step_response EXCEPT !.status = "Done"],
                                    [kind |-> "Committing with message", of |-> req.commit_msg])
              r1 == commit_result(r0, req.commit_msg, c, s, head + 1)
              commit == [ev |-> "commit_all", step |-> step_i, message |-> req.commit_msg,
                         out |-> c]
              sha_call == [ev |-> "current_short_sha", step |-> step_i, out |-> s]
              calls == << NotifyEv(step_i, req, r0, FALSE) >> \o
                       (IF c = "ok" THEN <<commit, sha_call>> ELSE <<commit>>)
          IN  /\ c = "err" => s = "ok"
              /\ head' = IF c = "ok" THEN head + 1 ELSE head
              /\ IF c = "ok" /\ s = "panic"
                 THEN /\ step_response' = r0
                      /\ log' = log \o calls
                      /\ pc' = "panicked"
                      /\ responses' = responses
                 ELSE /\ step_response' = r1
                      /\ log' = log \o calls \o << NotifyEv(step_i, req, r1, TRUE) >>
                      /\ pc' = "step_returned"
                      /\ responses' = Append(responses, r1)
    /\ UNCHANGED <<entry, mend_vars, exit_code, step_requests, env_i, penv, step_i,
                   step_request, script_i, result>>

\* run.rs 223-243: status := Done, commit, record the revision, final notify.
\* current_short_sha is called only when commit_all returned Ok.
run_step_commit ==
    /\ pc = "after_scripts"
    /\ CommitBranch(step_response)
    /\ \E c \in RepoOutcomes, s \in ShaOutcomes :
          LET req == step_request[1]
              r0 == push_output_str([step_response EXCEPT !.status = "Done"],
                                    [kind |-> "Committing with message", of |-> req.commit_msg])
              r1 == commit_result(r0, req.commit_msg, c, s, head + 1)
              commit == [ev |-> "commit_all", step |-> step_i, message |-> req.commit_msg,
                         out |-> c]
              sha_call == [ev |-> "current_short_sha", step |-> step_i, out |-> s]
              calls == IF c = "ok" THEN <<commit, sha_call>> ELSE <<commit>>
          IN  /\ c = "err" => s = "ok"
              /\ head' = IF c = "ok" THEN head + 1 ELSE head
              /\ IF c = "ok" /\ s = "panic"
                 THEN /\ step_response' = r0
                      /\ log' = log \o calls
                      /\ pc' = "panicked"
                      /\ responses' = responses
                 ELSE /\ step_response' = r1
                      /\ log' = log \o calls \o << NotifyEv(step_i, req, r1, TRUE) >>
                      /\ pc' = "step_returned"
                      /\ responses' = Append(responses, r1)
    /\ UNCHANGED <<entry, mend_vars, exit_code, step_requests, env_i, penv, step_i,
                   step_request, script_i, result>>

\* a reset whose error is appended to the output
run_step_reset_recordsError ==
    /\ pc = "after_scripts"
    /\ ~CommitBranch(step_response)
    /\ \E r \in RepoOutcomes :
          LET r1 == IF r = "err"
                    THEN push_output_str(step_response, [kind |-> "reset error", of |-> step_i])
                    ELSE step_response
          IN  /\ log' = log \o << [ev |-> "reset_hard", step |-> step_i, out |-> r],
                                  NotifyEv(step_i, step_request[1], r1, FALSE) >>
              /\ step_response' = r1
              /\ responses' = Append(responses, r1)
    /\ pc' = "step_returned"
    /\ UNCHANGED <<entry, mend_vars, exit_code, step_requests, env_i, penv, step_i,
                   step_request, script_i, head, result>>

\* run.rs 244-253: reset the worktree, ignoring the result, final notify.
run_step_reset ==
    /\ pc = "after_scripts"
    /\ ~CommitBranch(step_response)
    /\ \E r \in RepoOutcomes :
          log' = log \o << [ev |-> "reset_hard", step |-> step_i, out |-> r],
                           NotifyEv(step_i, step_request[1], step_response, FALSE) >>
    /\ pc' = "step_returned"
    /\ responses' = Append(responses, step_response)
    /\ UNCHANGED <<entry, mend_vars, exit_code, step_requests, env_i, penv, step_i,
                   step_request, step_response, script_i, head, result>>

Next ==
    \/ drive_plan
    \/ drive_ensure_worktree
    \/ drive_set_env
    \/ drive_notify_done
    \/ main_exit
    \/ run_all_steps_for
    \/ run_all_steps_check
    \/ main_run_all_steps_for
    \/ main_run_all_steps_check
    \/ run_step_enter
    \/ run_step_script
    \/ run_step_commit
    \/ run_step_reset

Spec == Init /\ [][Next]_vars

\* ---------------------------------------------------------------- planning alone
\* The planner as a function of the plan and the process environment:
\* create_run_status_from_mend (run.rs 98-118) applied to every plan built
\* from the step lines, recipes and hooks above.
\* The environments bind HOME alone, or also A and a variable named 3.
PlanEnvs == { [n \in {"HOME"} |-> "/home"],
              [n \in {"HOME", "A", "3"} |->
                  IF n = "A" THEN "a" ELSE IF n = "3" THEN "three" ELSE "/home"] }

PlanInit ==
    /\ entry = "plan"
    /\ pc = "plan"
    /\ cli = [file |-> None, dry_run |-> FALSE]
    /\ fs = <<>>
    /\ main_mend = None
    /\ include_i = 0
    /\ mend_from = None
    /\ mend_env = <<>>
    /\ mend_recipes \in RecipeMaps
    /\ mend_hooks \in {HookMap(b, a) : b \in Options(SeqsUpTo(BeforeHooks, MaxHooks)),
                                       a \in Options(AfterHookLists)}
    /\ mend_steps \in SeqsUpTo(StepLines, MaxPlanSteps)
    /\ penv \in PlanEnvs
    /\ step_requests = <<>>
    /\ env_i = 0
    /\ step_i = 0
    /\ step_request = None
    /\ step_response = NewStepResponse
    /\ script_i = 0
    /\ head = 0
    /\ responses = <<>>
    /\ result = None
    /\ exit_code = None
    /\ log = <<>>

\* let step_requests = create_run_status_from_mend(mend)  (main.rs 89)
plan_all ==
    /\ pc = "plan"
    /\ step_requests' = create_run_status_from_mend(mend_steps, mend_recipes, mend_hooks, penv)
    /\ pc' = "planned"
    /\ UNCHANGED <<entry, mend_vars, exit_code, env_i, penv, step_i, step_request,
                   step_response, script_i, head, responses, result, log>>

PlanNext == plan_all

PlanSpec == PlanInit /\ [][PlanNext]_vars

\* ---------------------------------------------------------------- loading
\* A Mend document as a file declares it (main.rs 28-46)
Mend(from, include, env, recipes, hooks, steps) ==
    [from |-> from, include |-> include, env |-> env, recipes |-> recipes,
     hooks |-> hooks, steps |-> steps]

\* a recipe as a file declares it, with the single `tag` (main.rs 54-62)
FileRecipe(run, commit_template, tag, tags) ==
    [run |-> run, commit_template |-> commit_template, tag |-> tag, tags |-> tags]

\* A file: missing, unreadable (fs::read_to_string fails), malformed
\* (toml::from_str fails) or the toml of a Mend document.
File(kind, mend) == [kind |-> kind, mend |-> mend]
Toml(mend) == File("toml", Some(mend))

\* the order of the keys of Mend.env in the BTreeMap
KeyOrder == <<"A", "B">>

\* BTreeMap::extend on env (main.rs 175): the bindings of both, a key of
\* `more` replacing the same key of `env`, in key order
env_extend(env, more) ==
    LET keys(e) == {e[j].key : j \in 1..Len(e)}
        binding(e, key) == e[CHOOSE j \in 1..Len(e) : e[j].key = key]
        Bound(key) == key \in keys(env) \cup keys(more)
        all == SelectSeq(KeyOrder, Bound)
    IN  [j \in 1..Len(all) |->
            IF all[j] \in keys(more) THEN binding(more, all[j]) ELSE binding(env, all[j])]

\* BTreeMap::extend on recipes and hooks (main.rs 177-178): later wins per key
map_extend(map, more) == more @@ map

\* extend_mend (main.rs 174-182)
extend_mend(merged_mend, include_mend) ==
    [from |-> include_mend.from,
     include |-> merged_mend.include,
     env |-> env_extend(merged_mend.env, include_mend.env),
     recipes |-> map_extend(merged_mend.recipes, include_mend.recipes),
     hooks |-> map_extend(merged_mend.hooks, include_mend.hooks),
     steps |-> merged_mend.steps \o include_mend.steps]

\* config.rs 47-53: a single `tag` is moved to the end of `tags`
take_tag(recipe) ==
    IF recipe.tag = None THEN recipe
    ELSE [recipe EXCEPT !.tags = Append(@, recipe.tag[1]), !.tag = None]

\* load_mend's merged_mend (config.rs 17), kept in the plan's variables
merged_mend ==
    [from |-> mend_from, include |-> <<>>, env |-> mend_env, recipes |-> mend_recipes,
     hooks |-> mend_hooks, steps |-> mend_steps]

\* merged_mend := m
SetMerged(m) ==
    /\ mend_from' = m.from
    /\ mend_env' = m.env
    /\ mend_recipes' = m.recipes
    /\ mend_hooks' = m.hooks
    /\ mend_steps' = m.steps

\* the variables of the driver and of run_step
drive_vars == <<step_requests, env_i, penv, step_i, step_request, step_response,
                script_i, head, responses>>

\* main.rs 145-164: the file of the plan, -f or mend.toml
config_path == IF cli.file = None THEN "mend.toml" ELSE cli.file[1]

\* the files: the includes a.toml (env A, a recipe cmd with a single tag and
\* the template "$A $1", a before hook; with or without from and steps) and
\* b.toml (env A and B, from), and the main document
IncludeNames == {"a.toml", "b.toml"}
FilesA ==
    {File("missing", None), File("malformed", None)} \cup
    { Toml(Mend(from, <<>>,
                << [key |-> "A", lit |-> "a", ref |-> None] >>,
                [n \in {"cmd"} |->
                    FileRecipe(<<W("rename-cli"), SP, Ref("1")>>,
                               Some(<<Ref("A"), SP, Ref("1")>>), Some("t"), <<>>)],
                [k \in {"before_step"} |-> << Hook(Some(<<W("echoA")>>), Some("t"), None) >>],
                steps)) :
        from \in {None, Some("fromA")}, steps \in {<<>>, <<LineRefs>>} }
FilesB ==
    { File("unreadable", None),
      Toml(Mend(Some("fromB"), <<>>,
                << [key |-> "A", lit |-> "b", ref |-> None],
                   [key |-> "B", lit |-> "", ref |-> Some("A")] >>,
                <<>>, <<>>, <<>>)) }
MainSteps == {<<>>, <<LineRefs, LineCmd>>}
FilesMain ==
    {File("missing", None), File("unreadable", None), File("malformed", None)} \cup
    { Toml(Mend(from, include, <<>>, <<>>,
                [k \in {"after_step"} |-> << Hook(Some(<<W("after")>>), None, None) >>],
                steps)) :
        from \in {None, Some("from")}, include \in SeqsUpTo(IncludeNames, MaxIncludes),
        steps \in MainSteps }

RunInit ==
    /\ entry = "run"
    /\ pc = "run"
    /\ cli \in [file : {None, Some("m.toml")}, dry_run : BOOLEAN]
    /\ \E m \in FilesMain, a \in FilesA, b \in FilesB :
          fs = [path \in {"mend.toml", "m.toml", "a.toml", "b.toml"} |->
                   IF path = config_path THEN m
                   ELSE IF path = "a.toml" THEN a
                   ELSE IF path = "b.toml" THEN b
                   ELSE File("missing", None)]
    /\ main_mend = None
    /\ include_i = 0
    /\ mend_from = None
    /\ mend_env = <<>>
    /\ mend_recipes = <<>>
    /\ mend_hooks = <<>>
    /\ mend_steps = <<>>
    /\ step_requests = <<>>
    /\ env_i = 0
    /\ penv = [n \in {"HOME"} |-> "/home"]
    /\ step_i = 0
    /\ step_request = None
    /\ step_response = NewStepResponse
    /\ script_i = 0
    /\ head = 0
    /\ responses = <<>>
    /\ result = None
    /\ exit_code = None
    /\ log = <<>>

\* bail! / `?` in run and load_mend: run returns the error
Bail(error) ==
    /\ result' = Some([ok |-> FALSE, error |-> error])
    /\ pc' = "run_err"

\* run (main.rs 145-164): the file of the plan must exist
run_config_path ==
    /\ pc = "run"
    /\ IF fs[config_path].kind = "missing"
       THEN Bail("no file")
       ELSE /\ pc' = "load_mend"
            /\ result' = result
    /\ UNCHANGED <<entry, mend_vars, exit_code, drive_vars, log>>

\* load_mend (config.rs 11-24): read and parse the main document, start from
\* an empty merged_mend
load_mend_read ==
    /\ pc = "load_mend"
    /\ LET file == fs[config_path]
       IN  /\ log' = Append(log, [ev |-> "read_to_string", path |-> config_path,
                                  ok |-> file.kind \in {"malformed", "toml"}])
           /\ IF file.kind \in {"missing", "unreadable"}
              THEN Bail("Could not read file") /\ main_mend' = main_mend
              ELSE IF file.kind = "malformed"
              THEN Bail("Unable to load data") /\ main_mend' = main_mend
              ELSE /\ main_mend' = Some(file.mend[1])
                   /\ pc' = "load_include"
                   /\ result' = result
    /\ include_i' = 0
    /\ SetMerged(Mend(None, <<>>, <<>>, <<>>, <<>>, <<>>))
    /\ UNCHANGED <<entry, cli, fs, exit_code, drive_vars>>

\* an include whose steps are let through
IncludeHasSteps_never(include_mend) == FALSE

\* config.rs 35: the include declares steps
IncludeHasSteps(include_mend) == include_mend.steps # <<>>

\* load_mend (config.rs 25-42): one iteration of the loop over the includes
load_mend_include ==
    /\ pc = "load_include"
    /\ include_i < Len(main_mend[1].include)
    /\ LET include_file == main_mend[1].include[include_i + 1]
           file == fs[include_file]
       IN  /\ log' = Append(log, [ev |-> "read_to_string", path |-> include_file,
                                  ok |-> file.kind \in {"malformed", "toml"}])
           /\ IF file.kind \in {"missing", "unreadable"}
              THEN Bail("Could not read include file") /\ UNCHANGED <<mend_from, mend_env,
                        mend_recipes, mend_hooks, mend_steps>>
              ELSE IF file.kind = "malformed"
              THEN Bail("Unable to load data") /\ UNCHANGED <<mend_from, mend_env,
                        mend_recipes, mend_hooks, mend_steps>>
              ELSE IF IncludeHasSteps(file.mend[1])
              THEN Bail("We only allow includes 1 level deep") /\ UNCHANGED <<mend_from,
                        mend_env, mend_recipes, mend_hooks, mend_steps>>
              ELSE /\ SetMerged(extend_mend(merged_mend, file.mend[1]))
                   /\ pc' = "load_include"
                   /\ result' = result
    /\ include_i' = include_i + 1
    /\ UNCHANGED <<entry, cli, fs, main_mend, exit_code, drive_vars>>

\* load_mend (config.rs 43-55): the main document is merged last, the single
\* tags are moved into `tags`, and the merged plan is returned
load_mend_finish ==
    /\ pc = "load_include"
    /\ include_i = Len(main_mend[1].include)
    /\ LET merged == extend_mend(merged_mend, main_mend[1])
       IN  SetMerged([merged EXCEPT !.recipes =
                         [n \in DOMAIN merged.recipes |-> take_tag(merged.recipes[n])]])
    /\ pc' = "loaded"
    /\ UNCHANGED <<entry, load_vars, exit_code, drive_vars, result, log>>

\* a run that drives whatever the command line says
DryRun_never(c) == FALSE

\* main.rs 166: `if cli.dry_run`
DryRun(c) == c.dry_run

\* run (main.rs 166-171): a dry run skips the driver and returns Ok(())
run_dispatch ==
    /\ pc = "loaded"
    /\ IF DryRun(cli)
       THEN /\ pc' = "run_ok"
            /\ entry' = entry
       ELSE /\ pc' = "drive"
            /\ entry' = "drive"
    /\ UNCHANGED <<mend_vars, exit_code, drive_vars, result, log>>

\* main (main.rs 71-81) after run returned without entering the driver:
\* status 0 on Ok, 1 on Err
run_exit ==
    /\ entry = "run"
    /\ pc \in {"run_ok", "run_err"}
    /\ exit_code = None
    /\ exit_code' = Some(IF pc = "run_ok" THEN 0 ELSE 1)
    /\ UNCHANGED <<entry, mend_vars, pc, drive_vars, result, log>>

\* the whole program: run, load_mend and the driver
RunNext ==
    \/ run_config_path
    \/ load_mend_read
    \/ load_mend_include
    \/ load_mend_finish
    \/ run_dispatch
    \/ run_exit
    \/ drive_plan
    \/ drive_ensure_worktree
    \/ drive_set_env
    \/ drive_notify_done
    \/ main_exit
    \/ main_run_all_steps_for
    \/ main_run_all_steps_check
    \/ run_step_enter
    \/ run_step_script
    \/ run_step_commit
    \/ run_step_reset

RunSpec == RunInit /\ [][RunNext]_vars

\* ---------------------------------------------------------------- type
TypeOK ==
    /\ pc \in {"drive", "ensure_worktree", "set_env", "for_step", "run_step", "for_script",
               "after_scripts", "step_returned", "notify_done", "done", "panicked",
               "plan", "planned",
               "run", "load_mend", "load_include", "loaded", "run_ok", "run_err"}
    /\ step_response.status \in EStatus
    /\ step_i \in 0..Len(step_requests)
    /\ Len(responses) <= Len(step_requests)

\* ---------------------------------------------------------------- the log
Idx == 1..Len(log)

\* the calls that are made for a step
StepCalls == {"notify", "run_script", "commit_all", "current_short_sha", "reset_hard"}

\* the k-th call is a call `name` made for the step with index i
Call(k, name, i) == log[k].ev = name /\ log[k].step = i

\* the k-th call is a notify made by run_step (the notifier's own notifies,
\* made when it is built, carry Pending)
StepNotify(k, i) == k \in Idx /\ Call(k, "notify", i) /\ log[k].status # "Pending"

RunScripts(i) == {k \in Idx : Call(k, "run_script", i)}
Commits(i) == {k \in Idx : Call(k, "commit_all", i)}
Resets(i) == {k \in Idx : Call(k, "reset_hard", i)}
NotifyDones == {k \in Idx : log[k].ev = "notify_done"}
NotifyFailures == {k \in Idx : log[k].ev = "notify_failure"}

\* the steps whose run_step call has returned, by index
Returned == 0..(Len(responses) - 1)
ResponseOf(i) == responses[i + 1]
RequestOf(i) == step_requests[i + 1]

\* run_all_steps is between two steps or has ended
BetweenSteps == pc \in {"step_returned", "for_step", "notify_done", "done"}
Provisioned == \E k \in Idx : log[k].ev = "ensure_worktree" /\ log[k].ok

\* ---------------------------------------------------------------- claims

\* C1: once a step's response is Failed the loop of run_all_steps stops: the
\* failed step is the last one run, no run_script, commit_all or notify of
\* run_step is made for a later step, and when the loop has been left the
\* reported pair is the failed step's request and response.
C1_FailedStopsLoop ==
    \A i \in Returned :
        ResponseOf(i).status = "Failed" =>
            /\ i = Len(responses) - 1
            /\ \A k \in Idx :
                  log[k].ev \in StepCalls /\ log[k].step > i =>
                      log[k].ev = "notify" /\ log[k].status = "Pending"
            /\ pc \in {"notify_done", "done"} =>
                  result = Some([ok |-> FALSE, request |-> RequestOf(i),
                                 response |-> ResponseOf(i)])

\* a failed first step was reported and the second step was never run
C1_Witness ==
    /\ pc = "done"
    /\ Len(step_requests) = 2
    /\ Len(responses) = 1
    /\ responses[1].status = "Failed"
    /\ result # None

\* C2: a step one of whose scripts exited non-zero never has commit_all
\* invoked, whatever the other scripts of the step did.
C2_NonZeroNoCommit ==
    \A i \in 0..(Len(step_requests) - 1) :
        (\E k \in RunScripts(i) : log[k].out = "nonzero") => Commits(i) = {}

\* a step has returned in which one script succeeded and a later one exited
\* non-zero
C2_Witness ==
    /\ pc = "step_returned"
    /\ \E k1 \in RunScripts(step_i), k2 \in RunScripts(step_i) :
          /\ k1 < k2
          /\ log[k1].out = "success"
          /\ log[k2].out = "nonzero"

\* C3: every step that ended Done had commit_all invoked exactly once, with
\* its own commit message, after every one of its scripts had run and before
\* any script of a later step; between steps the number of successful
\* commit_all calls equals the number of Done steps.
C3_OneCommitPerDoneStep ==
    /\ \A i \in Returned :
          ResponseOf(i).status = "Done" =>
              /\ Cardinality(Commits(i)) = 1
              /\ \A c \in Commits(i) :
                    /\ log[c].message = RequestOf(i).commit_msg
                    /\ log[c].out = "ok"
                    /\ {log[k].script : k \in RunScripts(i)} =
                          {RequestOf(i).run_resolved[j] :
                              j \in 1..Len(RequestOf(i).run_resolved)}
                    /\ \A k \in RunScripts(i) : k < c
                    /\ \A k \in Idx :
                          log[k].ev = "run_script" /\ log[k].step > i => c < k
    /\ BetweenSteps =>
          Cardinality({k \in Idx : log[k].ev = "commit_all" /\ log[k].out = "ok"}) =
          Cardinality({i \in Returned : ResponseOf(i).status = "Done"})

\* two steps with scripts have both ended Done
C3_Witness ==
    /\ pc = "done"
    /\ Len(responses) = 2
    /\ \A n \in 1..2 : responses[n].status = "Done" /\ Len(step_requests[n].run_resolved) = 2

\* C4 as stated: when run_step returns, Done implies the revision is set
\* and Failed implies it is None.
C4_DoneIffRevision ==
    \A i \in Returned :
        /\ ResponseOf(i).status = "Done" => ResponseOf(i).sha # None
        /\ ResponseOf(i).status = "Failed" => ResponseOf(i).sha = None

\* C4 amended: when run_step returns, Failed implies the revision is None, the
\* status is Done iff commit_all succeeded, and the revision is set iff
\* commit_all succeeded and current_short_sha returned a revision.
C4_RevisionIffCommitAndLookup ==
    \A i \in Returned :
        /\ ResponseOf(i).status \in {"Done", "Failed"}
        /\ ResponseOf(i).status = "Failed" => ResponseOf(i).sha = None
        /\ ResponseOf(i).status = "Done" <=> (\E c \in Commits(i) : log[c].out = "ok")
        /\ ResponseOf(i).sha # None <=>
              /\ \E c \in Commits(i) : log[c].out = "ok"
              /\ \E k \in Idx : Call(k, "current_short_sha", i) /\ log[k].out = "ok"

\* a step returned Done although the revision lookup failed, and another
\* returned Failed after its commit failed
C4_Witness ==
    /\ Len(responses) = 2
    /\ responses[1].status = "Done"
    /\ responses[1].sha = None
    /\ responses[2].status = "Failed"
    /\ Commits(1) # {}

\* C5: when a script exits non-zero the next call is a Failed notify, no
\* later script of the step is run, and once run_step has returned reset_hard
\* was invoked exactly once for the step, after that script.
C5_NonZeroBreaksAndResets ==
    \A i \in 0..(Len(step_requests) - 1) :
        \A k \in RunScripts(i) :
            log[k].out = "nonzero" =>
                /\ StepNotify(k + 1, i) /\ log[k + 1].status = "Failed" /\ ~log[k + 1].inc
                /\ \A k2 \in RunScripts(i) : k2 <= k
                /\ i \in Returned =>
                      /\ Cardinality(Resets(i)) = 1
                      /\ \A r \in Resets(i) : k < r
                      /\ ResponseOf(i).status = "Failed"

\* a step whose first script exited non-zero, with a script left, has returned
C5_Witness ==
    /\ pc = "step_returned"
    /\ Len(step_request[1].run_resolved) = 2
    /\ Cardinality(RunScripts(step_i)) = 1
    /\ \E k \in RunScripts(step_i) : log[k].out = "nonzero"
    /\ Resets(step_i) # {}

\* C6: when run_script returns an error the step is handled like a non-zero
\* exit: status becomes Failed and no later script of the step is run.
C6_ErrBreaks ==
    \A i \in 0..(Len(step_requests) - 1) :
        \A k \in RunScripts(i) :
            log[k].out = "err" =>
                /\ StepNotify(k + 1, i) /\ log[k + 1].status = "Failed"
                /\ \A k2 \in RunScripts(i) : k2 <= k

\* C7: when all scripts succeed but commit_all returns an error, the step
\* ends Failed and reset_hard was invoked before run_step returned.
C7_CommitErrorResets ==
    \A i \in Returned :
        (\E c \in Commits(i) : log[c].out = "err") =>
            /\ ResponseOf(i).status = "Failed"
            /\ \E r \in Resets(i) : \E c \in Commits(i) : c < r

\* C8: when the driver has ended after a Failed step it has invoked
\* notify_failure exactly once; it never invokes it when every step is Done.
C8_NotifyFailureOnce ==
    entry = "drive" =>
        /\ (\A i \in Returned : ResponseOf(i).status = "Done") => NotifyFailures = {}
        /\ pc = "done" /\ (\E i \in Returned : ResponseOf(i).status = "Failed") =>
              Cardinality(NotifyFailures) = 1

\* C9: the driver invokes notify_done at most once and nothing after it; when
\* the driver has returned from a run whose worktree was provisioned, it has
\* invoked it exactly once, as the last call, after all steps ended Done as
\* well as after a Failed step; for a plan without steps no notify is made.
C9_NotifyDoneOnceLast ==
    entry = "drive" =>
        /\ Cardinality(NotifyDones) <= 1
        /\ \A k \in NotifyDones : k = Len(log)
        /\ pc = "done" /\ Provisioned =>
              /\ Cardinality(NotifyDones) = 1
              /\ \/ \E i \in Returned : ResponseOf(i).status = "Failed"
                 \/ /\ Len(responses) = Len(step_requests)
                    /\ \A i \in Returned : ResponseOf(i).status = "Done"
              /\ Len(step_requests) = 0 => \A k \in Idx : log[k].ev # "notify"
        /\ NotifyDones # {} => Provisioned /\ pc = "done"

\* the driver has returned after a Failed second step and notify_done is
\* the last call
C9_Witness ==
    /\ entry = "drive"
    /\ pc = "done"
    /\ Len(responses) = 2
    /\ responses[2].status = "Failed"
    /\ log[Len(log)].ev = "notify_done"

\* C10: the first notify that run_step makes for a step carries Running and
\* does not advance, and a step that has returned has made one.
C10_FirstNotifyRunningNoInc ==
    \A i \in 0..(Len(step_requests) - 1) :
        /\ \A k \in Idx :
              (StepNotify(k, i) /\ \A k2 \in 1..(k - 1) : ~StepNotify(k2, i)) =>
                  log[k].status = "Running" /\ ~log[k].inc
        /\ i \in Returned => \E k \in Idx : StepNotify(k, i) /\ log[k].status = "Running"

\* the run_script calls, in the order they were made
IsRunScript(e) == e.ev = "run_script"
RunLog == SelectSeq(log, IsRunScript)

\* the scripts of all requests, step after step
AllScripts == Flatten([n \in 1..Len(step_requests) |-> step_requests[n].run_resolved])

\* C11: the scripts passed to run_script are, in order, a prefix of the
\* requests' script lists concatenated in step order, each run in repo.dir().
C11_ScriptsRunInPlanOrder ==
    /\ Len(RunLog) <= Len(AllScripts)
    /\ \A j \in 1..Len(RunLog) :
          /\ RunLog[j].script = AllScripts[j]
          /\ RunLog[j].cwd = "dir"

\* a run has ended in which scripts of two steps were run
C11_Witness ==
    /\ pc = "done"
    /\ Len(RunLog) >= 3
    /\ RunLog[1].step # RunLog[Len(RunLog)].step

\* C12: run_step returns with status Done or Failed, and once status is
\* Failed inside a step nothing in that step changes it.
C12_EndsDoneOrFailed ==
    /\ [](/\ \A i \in Returned : ResponseOf(i).status \in {"Done", "Failed"}
          /\ pc = "step_returned" => step_response.status \in {"Done", "Failed"})
    /\ [][(pc \in {"for_script", "after_scripts"} /\ step_response.status = "Failed")
             => step_response'.status = "Failed"]_vars

\* a step has returned Failed in which a script succeeded after run_script
\* had returned an error for an earlier one
C12_Witness ==
    /\ pc = "step_returned"
    /\ step_response.status = "Failed"
    /\ \E k1 \in RunScripts(step_i), k2 \in RunScripts(step_i) :
          k1 < k2 /\ log[k1].out = "err" /\ log[k2].out = "success"

\* ---------------------------------------------------------------- claims on planning
Planned == pc = "planned"
PlanIdx == 1..Len(mend_steps)

\* the tokens of the n-th step line and the recipes named like its first token
TokensOf(n) == split_whitespace(mend_steps[n])
RecipesOf(n) ==
    {name \in DOMAIN mend_recipes : TokensOf(n) # <<>> /\ TokensOf(n)[1] = W(name)}

\* the text occurs in the script
Occurs(text, script) ==
    \E i \in 0..(Len(script) - Len(text)) : SubSeq(script, i + 1, i + Len(text)) = text

\* the script ends with the step line and a newline
EndsWithLine(script, line) ==
    /\ Len(script) > Len(line)
    /\ SubSeq(script, Len(script) - Len(line), Len(script)) = line \o <<NL>>

\* C13: planning yields one request per step line, in the plan's order, whose
\* run field is the step line verbatim; no steps yield no requests.
C13_OneRequestPerStepVerbatim ==
    Planned =>
        /\ Len(step_requests) = Len(mend_steps)
        /\ \A n \in PlanIdx : step_requests[n].run = mend_steps[n]

\* two different step lines were planned, the first with surrounding whitespace
C13_Witness ==
    /\ Planned
    /\ Len(step_requests) = 2
    /\ step_requests[1].run = LinePadded
    /\ step_requests[2].run = LineCmd

\* C14: for a step whose first token names no recipe the commit message is
\* the trimmed step line, whatever the step line contains.
C14_NoRecipeMessageIsTrimmedLine ==
    Planned =>
        \A n \in PlanIdx :
            RecipesOf(n) = {} => step_requests[n].commit_msg = trim(mend_steps[n])

\* C14 (amended): for a step whose first token names no recipe the commit
\* message is the trimmed step line in which every $N / ${N} with
\* 1 <= N < number of tokens is replaced by the N-th token, every other
\* reference to a name set in the environment by the value of that name, and
\* everything else is kept; a line without references is its own message.
C14_NoRecipeMessageIsExpandedLine ==
    Planned =>
        \A n \in PlanIdx :
            RecipesOf(n) = {} =>
                LET L == trim(mend_steps[n])
                    msg == step_requests[n].commit_msg
                    tokens == TokensOf(n)
                    Positional(a) ==
                        /\ IsRef(a)
                        /\ a.s \in DOMAIN Digits
                        /\ Digits[a.s] \in 1..(Len(tokens) - 1)
                IN  /\ Len(msg) = Len(L)
                    /\ \A j \in 1..Len(L) :
                          msg[j] = IF Positional(L[j]) THEN tokens[Digits[L[j].s] + 1]
                                   ELSE IF IsRef(L[j]) /\ L[j].s \in DOMAIN penv
                                   THEN W(penv[L[j].s])
                                   ELSE L[j]
                    /\ (\A j \in 1..Len(L) : ~IsRef(L[j])) => msg = L

\* "echo $2 x $A" was planned without recipe where A is set, and a padded line
\* without references
C14_Witness ==
    /\ Planned
    /\ Len(step_requests) = 2
    /\ RecipesOf(1) = {} /\ RecipesOf(2) = {}
    /\ mend_steps[1] = LineRefs
    /\ step_requests[1].commit_msg = <<W("echo"), SP, W("x"), SP, W("x"), SP, W("a")>>
    /\ mend_steps[2] = LinePadded
    /\ step_requests[2].commit_msg = trim(LinePadded)

\* C15: for a step whose first token names a recipe with a commit template,
\* the commit message is the template in which every $N / ${N} with
\* 1 <= N < number of tokens is replaced by the N-th token of the step line
\* (token 0 is the recipe name) and every text that is no reference is kept.
C15_TemplatePositionalArgs ==
    Planned =>
        \A n \in PlanIdx : \A name \in RecipesOf(n) :
            mend_recipes[name].commit_template # None =>
                LET T == mend_recipes[name].commit_template[1]
                    msg == step_requests[n].commit_msg
                    tokens == TokensOf(n)
                IN  /\ Len(msg) = Len(T)
                    /\ \A j \in 1..Len(T) :
                          /\ ~IsRef(T[j]) => msg[j] = T[j]
                          /\ \A N \in 1..(Len(tokens) - 1) :
                                (IsRef(T[j]) /\ T[j].s \in DOMAIN Digits /\ Digits[T[j].s] = N)
                                    => msg[j] = tokens[N + 1]

\* "cmd arg1 arg2" was planned with the template "Rename $1 to ${2}"
C15_Witness ==
    /\ Planned
    /\ Len(step_requests) >= 1
    /\ mend_steps[1] = LineCmd
    /\ step_requests[1].commit_msg =
          <<W("Rename"), SP, W("arg1"), SP, W("to"), SP, W("arg2")>>

\* C16: the main script of a step is `function <name>() {\n<body>\n}\n`, the
\* step line and a newline when a recipe is named like the first token of the
\* line, and the step line and a newline otherwise; the body of any other
\* recipe occurs in no script of the step.
C16_RecipeInjectedIffFirstToken ==
    Planned =>
        \A n \in PlanIdx :
            LET scripts == step_requests[n].run_resolved
                line == mend_steps[n]
                Main(name) ==
                    <<W("function"), SP, W(name), W("()"), SP, W("{"), NL>>
                        \o mend_recipes[name].run \o <<NL, W("}"), NL>> \o line \o <<NL>>
            IN  /\ \A name \in RecipesOf(n) :
                      \E j \in 1..Len(scripts) : scripts[j] = Main(name)
                /\ RecipesOf(n) = {} =>
                      \E j \in 1..Len(scripts) : scripts[j] = line \o <<NL>>
                /\ \A other \in DOMAIN mend_recipes \ RecipesOf(n) :
                      \A j \in 1..Len(scripts) : ~Occurs(mend_recipes[other].run, scripts[j])

\* "cmd arg1 arg2" was planned with the recipes cmd and arg1
C16_Witness ==
    /\ Planned
    /\ Len(step_requests) >= 1
    /\ mend_steps[1] = LineCmd
    /\ DOMAIN mend_recipes = {"cmd", "arg1"}

\* the bodies of the hooks under a key
HookBodies(key) ==
    IF key \in DOMAIN mend_hooks
    THEN {mend_hooks[key][j].run[1] :
             j \in {i \in 1..Len(mend_hooks[key]) : mend_hooks[key][i].run # None}}
    ELSE {}

\* C17: the script list of a step holds the main script exactly once, every
\* script before it is the body of a before_step hook and every script after
\* it the body of an after_step hook.
C17_MainBetweenHooks ==
    Planned =>
        \A n \in PlanIdx :
            LET scripts == step_requests[n].run_resolved
                mains == {j \in 1..Len(scripts) : EndsWithLine(scripts[j], mend_steps[n])}
            IN  /\ Cardinality(mains) = 1
                /\ \A p \in mains :
                      /\ \A j \in 1..(p - 1) : scripts[j] \in HookBodies("before_step")
                      /\ \A j \in (p + 1)..Len(scripts) : scripts[j] \in HookBodies("after_step")

\* a step was planned with hooks selected before and after the main script
C17_Witness ==
    /\ Planned
    /\ \E n \in PlanIdx :
          LET scripts == step_requests[n].run_resolved
          IN  /\ Len(scripts) >= 4
              /\ EndsWithLine(scripts[2], mend_steps[n]) \/ EndsWithLine(scripts[3], mend_steps[n])

\* the tags of the recipes named like the first token of the n-th step line
ActiveTags(n) ==
    UNION {{mend_recipes[name].tags[j] : j \in 1..Len(mend_recipes[name].tags)} :
              name \in RecipesOf(n)}

\* the hook is selected under the tags: it has a body and when_tag is set and
\* among the tags, or only when_not_tag is set and not among them, or neither
\* is set
Selects(hook, tags) ==
    /\ hook.run # None
    /\ \/ hook.when_tag # None /\ hook.when_tag[1] \in tags
       \/ hook.when_tag = None /\ hook.when_not_tag # None /\ hook.when_not_tag[1] \notin tags
       \/ hook.when_tag = None /\ hook.when_not_tag = None

\* the bodies of the hooks under the key that the tags select, in declared order
SelectedBodies(key, tags) ==
    IF key \in DOMAIN mend_hooks
    THEN LET Test(hook) == Selects(hook, tags)
             chosen == SelectSeq(mend_hooks[key], Test)
         IN  [j \in 1..Len(chosen) |-> chosen[j].run[1]]
    ELSE <<>>

\* C18: the scripts before the main script are the bodies of the before_step
\* hooks selected under the tags of the step's matching recipe, in declared
\* order, and the scripts after it those of the after_step hooks.
C18_HooksSelectedByTag ==
    Planned =>
        \A n \in PlanIdx :
            LET scripts == step_requests[n].run_resolved
                before == SelectedBodies("before_step", ActiveTags(n))
                after == SelectedBodies("after_step", ActiveTags(n))
            IN  /\ Len(scripts) = Len(before) + 1 + Len(after)
                /\ SubSeq(scripts, 1, Len(before)) = before
                /\ SubSeq(scripts, Len(before) + 2, Len(scripts)) = after

\* a step with a recipe tagged t and u was planned under a hook for t and a
\* hook against t, and a step without recipe under the same hooks
C18_Witness ==
    /\ Planned
    /\ Len(mend_steps) = 2
    /\ ActiveTags(1) = {"t", "u"}
    /\ ActiveTags(2) = {}
    /\ "arg1" \in DOMAIN mend_recipes
    /\ "before_step" \in DOMAIN mend_hooks
    /\ Len(mend_hooks["before_step"]) = 2
    /\ mend_hooks["before_step"][1].when_tag = Some("t")
    /\ mend_hooks["before_step"][2].when_tag = None
    /\ mend_hooks["before_step"][2].when_not_tag = Some("t")
    /\ step_requests[1].run_resolved[1] = <<W("echoA")>>
    /\ step_requests[2].run_resolved[1] = <<W("echoB")>>

\* C23: a hook that sets both when_tag and when_not_tag is selected iff its
\* when_tag is among the tags of the step's matching recipe, whether or not
\* its when_not_tag is among them.
C23_WhenTagDecides ==
    Planned =>
        \A n \in PlanIdx : \A key \in DOMAIN mend_hooks : \A h \in 1..Len(mend_hooks[key]) :
            LET hook == mend_hooks[key][h]
                scripts == step_requests[n].run_resolved
            IN  (hook.run # None /\ hook.when_tag # None /\ hook.when_not_tag # None) =>
                    ((\E j \in 1..Len(scripts) : scripts[j] = hook.run[1])
                        <=> hook.when_tag[1] \in ActiveTags(n))

\* a hook with when_tag u and when_not_tag t was left out of a step without
\* tags and taken for a step tagged t and u
C23_Witness ==
    /\ Planned
    /\ Len(mend_steps) = 2
    /\ "before_step" \in DOMAIN mend_hooks
    /\ mend_hooks["before_step"] = << Hook(Some(<<W("echoC")>>), Some("u"), Some("t")) >>
    /\ ActiveTags(1) = {}
    /\ \A j \in 1..Len(step_requests[1].run_resolved) :
          step_requests[1].run_resolved[j] # <<W("echoC")>>
    /\ ActiveTags(2) = {"t", "u"}
    /\ step_requests[2].run_resolved[1] = <<W("echoC")>>

\* the commit template of the n-th step: that of the recipe named like the
\* first token, or the trimmed step line
TemplateOf(n) ==
    IF \E name \in RecipesOf(n) : mend_recipes[name].commit_template # None
    THEN mend_recipes[CHOOSE name \in RecipesOf(n) : TRUE].commit_template[1]
    ELSE trim(mend_steps[n])

\* C24: rendering fails for no template, and the message keeps every
\* reference that cannot be resolved: `$N` with N = 0 or N >= the number of
\* tokens of the step line, and a name that is not set in the environment;
\* a name that is set is replaced by its value.
C24_UnresolvedReferencesStay ==
    Planned =>
        \A n \in PlanIdx :
            LET T == TemplateOf(n)
                msg == step_requests[n].commit_msg
                tokens == TokensOf(n)
            IN  /\ Len(msg) = Len(T)
                /\ \A j \in 1..Len(T) :
                      IsRef(T[j]) =>
                          IF T[j].s \in DOMAIN Digits
                          THEN (Digits[T[j].s] = 0 \/ Digits[T[j].s] >= Len(tokens))
                                  => msg[j] = T[j]
                          ELSE msg[j] = IF T[j].s \in DOMAIN penv THEN W(penv[T[j].s])
                                        ELSE T[j]

\* ---------------------------------------------------------------- claims on the driver
\* the keys the plan's env binds
EnvKeys == {mend_env[j].key : j \in 1..Len(mend_env)}

\* C19: the driver has exported every env binding of the plan when the steps
\* are planned and when a script runs, and a commit template that refers to
\* a key of the plan's env is rendered with the value exported for it.
C19_EnvExportedBeforePlanning ==
    entry = "drive" =>
        /\ step_requests # <<>> => env_i = Len(mend_env)
        /\ RunLog # <<>> => env_i = Len(mend_env)
        /\ \A k \in Idx :
              log[k].ev = "commit_all" =>
                  \A name \in RecipesOf(log[k].step + 1) :
                      mend_recipes[name].commit_template # None =>
                          LET T == mend_recipes[name].commit_template[1]
                          IN  \A j \in 1..Len(T) :
                                  (IsRef(T[j]) /\ T[j].s \in EnvKeys) =>
                                      log[k].message[j] = W(penv[T[j].s])

\* C20: when ensure_worktree fails the driver sets no env binding, runs no
\* script, invokes neither commit_all nor reset_hard, and the process does not
\* end as a successful run.
C20_WorktreeFailureAborts ==
    (entry = "drive" /\ \E k \in Idx : log[k].ev = "ensure_worktree" /\ ~log[k].ok) =>
        /\ \A k \in Idx : log[k].ev \notin {"set_var", "run_script", "commit_all", "reset_hard"}
        /\ penv = [n \in {"HOME"} |-> "/home"]
        /\ exit_code # Some(0)

\* ---------------------------------------------------------------- claims on loading
\* load_mend has parsed the main document and has returned
LoadReturned == main_mend # None /\ pc # "load_include"

\* load_mend has returned Ok
LoadedOk == LoadReturned /\ pc # "run_err"

\* the documents of the files the main document includes, in include order
IncludedMends ==
    LET include == main_mend[1].include
        Parsed(path) == fs[path].kind = "toml"
        parsed == SelectSeq(include, Parsed)
    IN  [j \in 1..Len(parsed) |-> fs[parsed[j]].mend[1]]

\* C21: when an included file declares steps, load_mend returns an error and
\* no plan; the steps of a loaded plan are the steps of the main document in
\* their declared order.
C21_IncludeWithStepsRejected ==
    /\ (LoadReturned /\ \E j \in 1..Len(IncludedMends) : IncludedMends[j].steps # <<>>)
          => (pc = "run_err" /\ result # None /\ ~result[1].ok)
    /\ LoadedOk => mend_steps = main_mend[1].steps

\* load_mend merged one include and rejected the next one for its steps,
\* while the main document declares two steps
C21_Witness ==
    /\ pc = "run_err"
    /\ include_i = 2
    /\ result = Some([ok |-> FALSE, error |-> "We only allow includes 1 level deep"])
    /\ mend_from = Some("fromB")
    /\ Len(main_mend[1].steps) = 2

\* C22: with --dry-run, run loads and validates the plan, returning an error
\* for a missing plan file or an unreadable include, and never enters the
\* driver: no worktree is provisioned, no environment variable set, no script
\* run and no commit made.
C22_DryRunSkipsDriver ==
    cli.dry_run =>
        /\ entry = "run"
        /\ pc \in {"run", "load_mend", "load_include", "loaded", "run_ok", "run_err"}
        /\ \A k \in Idx : log[k].ev = "read_to_string"
        /\ penv = [n \in {"HOME"} |-> "/home"]
        /\ head = 0
        /\ step_requests = <<>>
        /\ (fs[config_path].kind = "missing" /\ pc # "run") => pc = "run_err"
        /\ (LoadReturned /\ \E j \in 1..Len(main_mend[1].include) :
                                fs[main_mend[1].include[j]].kind \in {"missing", "unreadable"})
              => pc = "run_err"
        /\ pc = "run_err" => (result # None /\ ~result[1].ok /\ exit_code \in {None, Some(1)})
        /\ pc = "run_ok" =>
              /\ Len(log) = 1 + Len(main_mend[1].include)
              /\ \A k \in Idx : log[k].ok
              /\ exit_code \in {None, Some(0)}

\* a dry run loaded a plan with a from, two includes and two steps, and
\* returned Ok
C22_Witness ==
    /\ cli.dry_run
    /\ pc = "run_ok"
    /\ exit_code = Some(0)
    /\ Len(log) = 3
    /\ mend_from = Some("from")
    /\ Len(mend_steps) = 2

\* the `from` of the latest of the merged documents that declares one
LatestFrom ==
    LET docs == Append(IncludedMends, main_mend[1])
        Declares(doc) == doc.from # None
        declaring == SelectSeq(docs, Declares)
    IN  IF declaring = <<>> THEN None ELSE declaring[Len(declaring)].from

\* C26: the merged `from` is that of the latest document, among the includes
\* in order and then the main document, that declares `from`; a later
\* document without `from` leaves the earlier value in place.
C26_FromOfLatestDeclaring == LoadedOk => mend_from = LatestFrom

\* the requests a second call of create_run_status_from_mend would return now
Replanned == create_run_status_from_mend(mend_steps, mend_recipes, mend_hooks, penv)

\* drive has planned the steps
DrivePlanned == entry = "drive" /\ pc # "drive" /\ mend_from # None

\* the keys drive has exported so far
Exported == {log[k].key : k \in {i \in Idx : log[i].ev = "set_var"}}

\* C25: planning the same plan again yields the same requests, also after the
\* driver has exported the plan's env bindings.
C25_PlanningDeterministic == DrivePlanned => Replanned = step_requests

\* C25 (amended): planning the same plan again yields the same requests as
\* long as the environment is the same; after the driver has exported env
\* bindings it yields the same run and the same scripts, and a commit message
\* that differs at most where the template refers to an exported key, which
\* is then rendered with the exported value.
C25_PlanningDeterministicUpToEnv ==
    DrivePlanned =>
        /\ Len(Replanned) = Len(step_requests)
        /\ Exported = {} => Replanned = step_requests
        /\ \A n \in 1..Len(step_requests) :
              LET T == TemplateOf(n)
                  was == step_requests[n].commit_msg
                  now == Replanned[n].commit_msg
              IN  /\ Replanned[n].run = step_requests[n].run
                  /\ Replanned[n].run_resolved = step_requests[n].run_resolved
                  /\ Len(now) = Len(was)
                  /\ \A j \in 1..Len(was) :
                        now[j] # was[j] =>
                            /\ IsRef(T[j])
                            /\ T[j].s \in Exported
                            /\ now[j] = W(penv[T[j].s])

\* the template "$A $1" was planned as "$A arg1" and, A exported, would now
\* be planned as "a arg1"
C25_Witness ==
    /\ DrivePlanned
    /\ Exported = {"A"}
    /\ Len(step_requests) >= 1
    /\ step_requests[1].commit_msg = <<Ref("A"), SP, W("arg1")>>
    /\ Replanned[1].commit_msg = <<W("a"), SP, W("arg1")>>
    /\ Replanned[1].run_resolved = step_requests[1].run_resolved

\* ---------------------------------------------------------------- claims on run_step
\* the calls `name` made for the step with index i, in the order made
CallsOf(name, i) ==
    LET Made(e) == e.ev = name /\ e.step = i
    IN  SelectSeq(log, Made)

\* what one run_script call leaves in the output: the Running marker with
\* the script, then its stdout and its stderr, or the error of a script that
\* could not be run
ScriptOutput(e) ==
    IF e.out = "err"
    THEN << [kind |-> "Running", of |-> e.script], [kind |-> "Failed to run", of |-> e.script] >>
    ELSE << [kind |-> "Running", of |-> e.script], [kind |-> "stdout", of |-> e.script],
            [kind |-> "stderr", of |-> e.script] >>

\* what one commit_all call leaves in the output
CommitOutput(e) ==
    IF e.out = "err"
    THEN << [kind |-> "Committing with message", of |-> e.message],
            [kind |-> "commit error", of |-> e.message] >>
    ELSE << [kind |-> "Committing with message", of |-> e.message] >>

\* C27: when run_step returns, the output holds, in launch order, for every
\* script passed to run_script the Running marker with the script followed by
\* its stdout and then its stderr (or by the error of a script that could not
\* be run), and after all of them the Committing marker if a commit was
\* attempted; a failed step thus holds the output of the failing script and
\* of all scripts before it.
C27_OutputRecordsScriptsInOrder ==
    \A i \in Returned :
        LET ran == CallsOf("run_script", i)
            committed == CallsOf("commit_all", i)
        IN  ResponseOf(i).output =
                Some(Flatten([j \in 1..Len(ran) |-> ScriptOutput(ran[j])])
                     \o Flatten([j \in 1..Len(committed) |-> CommitOutput(committed[j])]))

\* a step returned Failed after a script that succeeded and one that exited
\* non-zero
C27_Witness ==
    /\ pc = "step_returned"
    /\ step_response.status = "Failed"
    /\ Len(CallsOf("run_script", step_i)) = 2
    /\ CallsOf("run_script", step_i)[1].out = "success"
    /\ CallsOf("run_script", step_i)[2].out = "nonzero"
    /\ Len(step_response.output[1]) = 6
    /\ step_response.output[1][5].kind = "stdout"

\* C28: a notify that carries Done is made after a successful commit_all of
\* its step, is the only one of its step that carries Done, and is the last
\* notify of its step.
C28_DoneNotifiedOnlyAfterCommit ==
    \A k \in Idx :
        (log[k].ev = "notify" /\ log[k].status = "Done") =>
            /\ \E c \in Commits(log[k].step) : c < k /\ log[c].out = "ok"
            /\ \A j \in Idx : (StepNotify(j, log[k].step) /\ log[j].status = "Done") => j = k
            /\ \A j \in Idx : StepNotify(j, log[k].step) => j <= k

\* a step was notified Done after its commit, and the next step's commit
\* failed and was notified Failed
C28_Witness ==
    /\ pc = "step_returned"
    /\ step_i = 1
    /\ \E k \in Idx : StepNotify(k, 0) /\ log[k].status = "Done"
    /\ \E c \in Commits(1) : log[c].out = "err"
    /\ \E k \in Idx : StepNotify(k, 1) /\ log[k].status = "Failed" /\ log[k].inc

\* C29: for one step, commit_all is called at most once, reset_hard at most
\* once and never both; reset_hard is called after the last run_script of
\* the step; and the call of reset_hard, whatever it returns, leaves status,
\* revision and output as they were.
C29_CommitOrResetOnce ==
    /\ [](\A i \in 0..(Len(step_requests) - 1) :
             /\ Cardinality(Commits(i)) <= 1
             /\ Cardinality(Resets(i)) <= 1
             /\ Commits(i) = {} \/ Resets(i) = {}
             /\ \A r \in Resets(i) : \A k \in RunScripts(i) : k < r)
    /\ [][(Len(log') > Len(log) /\ log'[Len(log) + 1].ev = "reset_hard")
             => /\ step_response' = step_response
                /\ responses' = Append(responses, step_response)
                /\ log'[Len(log) + 2].status = step_response.status
                /\ log'[Len(log) + 2].sha = step_response.sha]_vars

\* a step ran two scripts, failed, and returned after a reset_hard that
\* returned an error
C29_Witness ==
    /\ pc = "step_returned"
    /\ Cardinality(RunScripts(step_i)) = 2
    /\ \E r \in Resets(step_i) : log[r].out = "err"
    /\ step_response.status = "Failed"
    /\ step_response.sha = None

\* the advancing notifies run_step has made for the step with index i
Advancing(i) == {k \in Idx : StepNotify(k, i) /\ log[k].inc}

\* C30: every run_script call is immediately preceded by an advancing notify
\* of its step; a step never has more advancing notifies than the length
\* len(scripts) + 1 of its progress row, and a step whose run_step has
\* returned has exactly that many iff its commit was attempted.
C30_AdvancingNotifiesFitRow ==
    /\ \A k \in Idx :
          log[k].ev = "run_script" =>
              /\ k > 1
              /\ StepNotify(k - 1, log[k].step)
              /\ log[k - 1].inc
    /\ \A i \in 0..(Len(step_requests) - 1) :
          Cardinality(Advancing(i)) <= Len(RequestOf(i).run_resolved) + 1
    /\ \A i \in Returned :
          (Cardinality(Advancing(i)) = Len(RequestOf(i).run_resolved) + 1)
              <=> Commits(i) # {}

\* a step with two scripts was committed after three advancing notifies, and
\* the next step failed in its first script
C30_Witness ==
    /\ pc = "step_returned"
    /\ step_i = 1
    /\ Len(RequestOf(0).run_resolved) = 2
    /\ Cardinality(Advancing(0)) = 3
    /\ Commits(0) # {}
    /\ Len(RequestOf(1).run_resolved) = 2
    /\ Cardinality(Advancing(1)) = 1
    /\ Resets(1) # {}

====
